---------------------------- MODULE Spec2Model ----------------------------
(***************************************************************************)
(* django_hstore/dict.py: HStoreDict, HStoreReferenceDictionary and        *)
(* HStoreModeledDictionary, with the library conversions they call         *)
(* (force_text, json.dumps, json.loads, pickle.dumps, pickle.loads).       *)
(*                                                                         *)
(* The module is written for Python 2 (dict.iteritems in update), so the   *)
(* values are Python 2 values: int and long are two types, and pickle      *)
(* writes protocol 0.                                                      *)
(*                                                                         *)
(* Text is a sequence of one-character strings, so that conversions are    *)
(* computed character by character.  A Python value is a tuple whose       *)
(* first element is its type:                                              *)
(*   <<"NoneType">>        <<"bool", b>>      <<"int", n>>   <<"long", n>> *)
(*   <<"float", t>>        the float t/10                                  *)
(*   <<"Decimal", u, e>>   the decimal u * 10^-e, e digits after the point *)
(*   <<"str", chars>>      <<"list", seq>>    <<"dict", function>>         *)
(*   <<"Model", pk, oid>>  a model instance: primary key and object id     *)
(*   <<"object", n>>       any other object                                *)
(*   <<"exc", class, message>> a raised exception, as an operator's result *)
(***************************************************************************)
EXTENDS Integers, Sequences, FiniteSets, TLC

(***************************************************************************)
(* Bounds of the model.                                                    *)
(***************************************************************************)
\* the integers written are -MaxInt, 0 and MaxInt (two digits, one signed)
MaxInt == 12
\* connection handles 1..MaxConn passed to prepare()
MaxConn == 2
\* records 1..MaxPk of the referenced model
MaxPk == 2
\* model instances created by lookups in one run
MaxObjects == 2
\* lookups counted per key between two writes
MaxLookups == 2

None == <<"NoneType">>
True == <<"bool", TRUE>>
False == <<"bool", FALSE>>
PyInt(n) == <<"int", n>>
PyLong(n) == <<"long", n>>
PyFloat(t) == <<"float", t>>
PyDecimal(u, e) == <<"Decimal", u, e>>
PyStr(cs) == <<"str", cs>>
PyList(xs) == <<"list", xs>>
PyDict(f) == <<"dict", f>>
Exc(class, message) == <<"exc", class, message>>

TypeOf(v) == v[1]
IsExc(v) == TypeOf(v) = "exc"
EmptyMap == [k \in {} |-> None]

---------------------------------------------------------------------------
(***************************************************************************)
(* Text helpers.                                                           *)
(***************************************************************************)
Digits == <<"0", "1", "2", "3", "4", "5", "6", "7", "8", "9">>
IsDigit(c) == \E i \in 1..10 : Digits[i] = c
DigitValue(c) == (CHOOSE i \in 1..10 : Digits[i] = c) - 1

RECURSIVE NatToText(_)
NatToText(n) ==
    IF n < 10 THEN <<Digits[n + 1]>>
    ELSE NatToText(n \div 10) \o <<Digits[(n % 10) + 1]>>

\* unicode(n) of an int or long
IntToText(n) == IF n < 0 THEN <<"-">> \o NatToText(-n) ELSE NatToText(n)

\* unicode(f) of the float t/10: "1.5", "-0.5", "2.0"
FloatToText(t) ==
    LET a == IF t < 0 THEN -t ELSE t
    IN  (IF t < 0 THEN <<"-">> ELSE <<>>)
        \o NatToText(a \div 10) \o <<".">> \o <<Digits[(a % 10) + 1]>>

RECURSIVE Pow10(_)
Pow10(e) == IF e = 0 THEN 1 ELSE 10 * Pow10(e - 1)

RECURSIVE PadDigits(_, _)
PadDigits(cs, e) == IF Len(cs) >= e THEN cs ELSE PadDigits(<<"0">> \o cs, e)

\* unicode(d) of the Decimal u * 10^-e: Decimal("1.50") is "1.50"
DecimalToText(u, e) ==
    LET a == IF u < 0 THEN -u ELSE u
        sign == IF u < 0 THEN <<"-">> ELSE <<>>
    IN  IF e = 0 THEN sign \o NatToText(a)
        ELSE sign \o NatToText(a \div Pow10(e)) \o <<".">>
                  \o PadDigits(NatToText(a % Pow10(e)), e)

\* unicode.lower() on the letters force_text(bool) produces
LowerChar(c) == IF c = "T" THEN "t" ELSE IF c = "F" THEN "f" ELSE c
Lower(cs) == [i \in 1..Len(cs) |-> LowerChar(cs[i])]

\* django.utils.encoding.force_text: unicode(value); text is returned as it
\* is, and an exception gives its message (kept as one unit of text)
force_text(v) ==
    CASE TypeOf(v) = "str" -> v
      [] TypeOf(v) = "bool" ->
            PyStr(IF v[2] THEN <<"T", "r", "u", "e">> ELSE <<"F", "a", "l", "s", "e">>)
      [] TypeOf(v) \in {"int", "long"} -> PyStr(IntToText(v[2]))
      [] TypeOf(v) = "float" -> PyStr(FloatToText(v[2]))
      [] TypeOf(v) = "Decimal" -> PyStr(DecimalToText(v[2], v[3]))
      [] TypeOf(v) = "NoneType" -> PyStr(<<"N", "o", "n", "e">>)
      [] TypeOf(v) = "exc" -> PyStr(<<v[3]>>)

---------------------------------------------------------------------------
(***************************************************************************)
(* json.dumps and json.loads.                                              *)
(***************************************************************************)
\* the order in which a dict is iterated: arbitrary, but fixed for a dict
RECURSIVE IterOrder(_)
IterOrder(S) ==
    IF S = {} THEN <<>>
    ELSE LET x == CHOOSE y \in S : TRUE IN <<x>> \o IterOrder(S \ {x})

\* the JSON escapes of the characters of a string (py_encode_basestring)
RECURSIVE JsonEscape(_)
JsonEscape(cs) ==
    IF cs = <<>> THEN <<>>
    ELSE (IF Head(cs) \in {"\"", "\\"} THEN <<"\\", Head(cs)>> ELSE <<Head(cs)>>)
         \o JsonEscape(Tail(cs))

JsonString(cs) == <<"\"">> \o JsonEscape(cs) \o <<"\"">>

RECURSIVE JsonEncode(_)
RECURSIVE JsonEncodeList(_)
RECURSIVE JsonEncodeItems(_, _)
\* the text json.dumps writes for a value (separators ", " and ": ")
JsonEncode(v) ==
    CASE TypeOf(v) = "str" -> JsonString(v[2])
      [] TypeOf(v) = "NoneType" -> <<"n", "u", "l", "l">>
      [] TypeOf(v) = "bool" ->
            IF v[2] THEN <<"t", "r", "u", "e">> ELSE <<"f", "a", "l", "s", "e">>
      [] TypeOf(v) \in {"int", "long"} -> IntToText(v[2])
      [] TypeOf(v) = "float" -> FloatToText(v[2])
      [] TypeOf(v) = "list" -> <<"[">> \o JsonEncodeList(v[2]) \o <<"]">>
      [] TypeOf(v) = "dict" ->
            <<"{">> \o JsonEncodeItems(v[2], IterOrder(DOMAIN v[2])) \o <<"}">>

JsonEncodeList(xs) ==
    IF xs = <<>> THEN <<>>
    ELSE JsonEncode(Head(xs))
         \o (IF Tail(xs) = <<>> THEN <<>> ELSE <<",", " ">> \o JsonEncodeList(Tail(xs)))

JsonEncodeItems(f, ks) ==
    IF ks = <<>> THEN <<>>
    ELSE JsonString(Head(ks)) \o <<":", " ">> \o JsonEncode(f[Head(ks)])
         \o (IF Tail(ks) = <<>> THEN <<>> ELSE <<",", " ">> \o JsonEncodeItems(f, Tail(ks)))

json_dumps(v) == PyStr(JsonEncode(v))

\* the character at position i, "" past the end
At(s, i) == IF i >= 1 /\ i <= Len(s) THEN s[i] ELSE ""

RECURSIVE SkipWs(_, _)
SkipWs(s, i) == IF At(s, i) \in {" ", "\n", "\t"} THEN SkipWs(s, i + 1) ELSE i

Parsed(v, i) == [ok |-> TRUE, v |-> v, i |-> i, msg |-> ""]
ParseError(msg, i) == [ok |-> FALSE, v |-> None, i |-> i, msg |-> msg]

\* s[i..] starts with the characters lit
StartsWith(s, i, lit) == \A j \in 1..Len(lit) : At(s, i + j - 1) = lit[j]

RECURSIVE ScanDigits(_, _)
\* the first position from i on that holds no digit
ScanDigits(s, i) == IF IsDigit(At(s, i)) THEN ScanDigits(s, i + 1) ELSE i

RECURSIVE DigitsToNat(_, _, _, _)
DigitsToNat(s, i, j, acc) ==
    IF i >= j THEN acc ELSE DigitsToNat(s, i + 1, j, 10 * acc + DigitValue(s[i]))

\* a JSON number at i: -?(0|[1-9][0-9]*)(\.[0-9]+)? ; a fraction makes a float,
\* which the model keeps to its first fractional digit
ParseNumber(s, i) ==
    LET neg == At(s, i) = "-"
        b == IF neg THEN i + 1 ELSE i
        e == IF At(s, b) = "0" THEN b + 1 ELSE ScanDigits(s, b)
        n == DigitsToNat(s, b, e, 0)
        fe == IF At(s, e) = "." THEN ScanDigits(s, e + 1) ELSE e
    IN  IF e = b THEN ParseError("No JSON object could be decoded", i)
        ELSE IF fe > e + 1
             THEN LET t == 10 * n + DigitValue(s[e + 1])
                  IN  Parsed(PyFloat(IF neg THEN -t ELSE t), fe)
             ELSE Parsed(PyInt(IF neg THEN -n ELSE n), e)

RECURSIVE ParseString(_, _, _)
\* the string whose opening quote is before i
ParseString(s, i, acc) ==
    IF i > Len(s) THEN ParseError("Unterminated string", i)
    ELSE IF s[i] = "\"" THEN Parsed(PyStr(acc), i + 1)
    ELSE IF s[i] = "\\"
         THEN IF At(s, i + 1) \in {"\"", "\\", "/"}
              THEN ParseString(s, i + 2, Append(acc, s[i + 1]))
              ELSE ParseError("Invalid \\escape", i)
    ELSE ParseString(s, i + 1, Append(acc, s[i]))

RECURSIVE ParseValue(_, _)
RECURSIVE ParseArrayItems(_, _, _)
RECURSIVE ParseObjectItems(_, _, _)
ParseValue(s, i) ==
    LET c == At(s, i)
    IN  CASE c = "\"" -> ParseString(s, i + 1, <<>>)
          [] c = "{" ->
                IF At(s, SkipWs(s, i + 1)) = "}"
                THEN Parsed(PyDict(EmptyMap), SkipWs(s, i + 1) + 1)
                ELSE ParseObjectItems(s, SkipWs(s, i + 1), EmptyMap)
          [] c = "[" ->
                IF At(s, SkipWs(s, i + 1)) = "]"
                THEN Parsed(PyList(<<>>), SkipWs(s, i + 1) + 1)
                ELSE ParseArrayItems(s, SkipWs(s, i + 1), <<>>)
          [] c = "n" /\ StartsWith(s, i, <<"n", "u", "l", "l">>) -> Parsed(None, i + 4)
          [] c = "t" /\ StartsWith(s, i, <<"t", "r", "u", "e">>) -> Parsed(True, i + 4)
          [] c = "f" /\ StartsWith(s, i, <<"f", "a", "l", "s", "e">>) -> Parsed(False, i + 5)
          [] c = "-" \/ IsDigit(c) -> ParseNumber(s, i)
          [] OTHER -> ParseError("No JSON object could be decoded", i)

\* the values of an array from i on, the ones before in acc
ParseArrayItems(s, i, acc) ==
    LET r == ParseValue(s, i)
        j == SkipWs(s, r.i)
    IN  IF ~r.ok THEN r
        ELSE IF At(s, j) = "," THEN ParseArrayItems(s, SkipWs(s, j + 1), Append(acc, r.v))
        ELSE IF At(s, j) = "]" THEN Parsed(PyList(Append(acc, r.v)), j + 1)
        ELSE ParseError("Expecting , delimiter", j)

\* the pairs of an object from i on, the ones before in acc; a key met twice
\* keeps its last value
ParseObjectItems(s, i, acc) ==
    IF At(s, i) # "\"" THEN ParseError("Expecting property name", i)
    ELSE LET k == ParseString(s, i + 1, <<>>)
             c == SkipWs(s, k.i)
             r == ParseValue(s, SkipWs(s, c + 1))
             j == SkipWs(s, r.i)
             f == (k.v[2] :> r.v) @@ acc
         IN  IF ~k.ok THEN k
             ELSE IF At(s, c) # ":" THEN ParseError("Expecting : delimiter", c)
             ELSE IF ~r.ok THEN r
             ELSE IF At(s, j) = "," THEN ParseObjectItems(s, SkipWs(s, j + 1), f)
             ELSE IF At(s, j) = "}" THEN Parsed(PyDict(f), j + 1)
             ELSE ParseError("Expecting , delimiter", j)

\* json.loads of a text: the value, or the ValueError the decoder raises
json_loads(text) ==
    LET s == text[2]
        r == ParseValue(s, SkipWs(s, 1))
    IN  IF ~r.ok THEN Exc("ValueError", r.msg)
        ELSE IF SkipWs(s, r.i) <= Len(s) THEN Exc("ValueError", "Extra data")
        ELSE r.v

---------------------------------------------------------------------------
(***************************************************************************)
(* pickle.dumps and pickle.loads, protocol 0 (the default of Python 2).    *)
(***************************************************************************)
Contains(cs, c) == \E i \in 1..Len(cs) : cs[i] = c

RECURSIVE ReprEscape(_, _)
\* the body of repr(str): the backslash and the enclosing quote are escaped
ReprEscape(cs, q) ==
    IF cs = <<>> THEN <<>>
    ELSE (IF Head(cs) = "\\" \/ Head(cs) = q THEN <<"\\", Head(cs)>> ELSE <<Head(cs)>>)
         \o ReprEscape(Tail(cs), q)

\* repr of a str: in single quotes, unless it holds a single and no double quote
Repr(cs) ==
    LET q == IF Contains(cs, "'") /\ ~Contains(cs, "\"") THEN "\"" ELSE "'"
    IN  <<q>> \o ReprEscape(cs, q) \o <<q>>

RECURSIVE ReprUnescape(_)
\* str.decode("string-escape") on what ReprEscape writes
ReprUnescape(cs) ==
    IF cs = <<>> THEN <<>>
    ELSE IF Head(cs) = "\\" /\ Len(cs) >= 2
         THEN <<cs[2]>> \o ReprUnescape(Tail(Tail(cs)))
         ELSE <<Head(cs)>> \o ReprUnescape(Tail(cs))

\* int(text) of an optionally signed run of digits
TextToInt(cs) ==
    IF Head(cs) = "-" THEN -DigitsToNat(cs, 2, Len(cs) + 1, 0)
    ELSE DigitsToNat(cs, 1, Len(cs) + 1, 0)

\* float(text) of "i.d", in tenths
TextToFloat(cs) ==
    LET neg == Head(cs) = "-"
        b == IF neg THEN 2 ELSE 1
        dot == CHOOSE i \in 1..Len(cs) : cs[i] = "."
        t == 10 * DigitsToNat(cs, b, dot, 0) + DigitValue(cs[dot + 1])
    IN  IF neg THEN -t ELSE t

\* pickle.dumps(value): the opcodes of save_int, save_bool, save_long,
\* save_float, save_none and save_string, then STOP
pickle_dumps(v) ==
    PyStr(CASE TypeOf(v) = "NoneType" -> <<"N", ".">>
            [] TypeOf(v) = "bool" ->
                  <<"I", "0", IF v[2] THEN "1" ELSE "0", "\n", ".">>
            [] TypeOf(v) = "int" -> <<"I">> \o IntToText(v[2]) \o <<"\n", ".">>
            [] TypeOf(v) = "long" -> <<"L">> \o IntToText(v[2]) \o <<"L", "\n", ".">>
            [] TypeOf(v) = "float" -> <<"F">> \o FloatToText(v[2]) \o <<"\n", ".">>
            [] TypeOf(v) = "str" ->
                  <<"S">> \o Repr(v[2]) \o <<"\n", "p", "0", "\n", ".">>)

\* the argument of the opcode at s[1]: the characters up to the first newline
OpLine(s) ==
    LET nl == CHOOSE i \in 2..Len(s) : s[i] = "\n" /\ \A j \in 2..(i - 1) : s[j] # "\n"
    IN  SubSeq(s, 2, nl - 1)

\* pickle.loads(text): load_none, load_int (01 and 00 are the booleans),
\* load_long, load_float and load_string
pickle_loads(text) ==
    LET s == text[2]
        line == OpLine(s)
    IN  CASE s[1] = "N" -> None
          [] s[1] = "I" ->
                IF line = <<"0", "1">> THEN True
                ELSE IF line = <<"0", "0">> THEN False
                ELSE PyInt(TextToInt(line))
          [] s[1] = "L" -> PyLong(TextToInt(SubSeq(line, 1, Len(line) - 1)))
          [] s[1] = "F" -> PyFloat(TextToFloat(line))
          [] s[1] = "S" -> PyStr(ReprUnescape(SubSeq(line, 2, Len(line) - 1)))

---------------------------------------------------------------------------
(***************************************************************************)
(* HStoreDict.  A mapping object is <<class, fields>>, fields a record of  *)
(* the dict's entries (data) and the instance attributes.                  *)
(***************************************************************************)
Object(class, data, field, instance, connection) ==
    <<class, [data |-> data, field |-> field, instance |-> instance,
              connection |-> connection]>>

IsMapping(v) == TypeOf(v) \in {"HStoreDict", "HStoreReferenceDictionary", "HStoreModeledDictionary"}

\* isinstance(value, dict): a dict or an object of a dict subclass
IsDictInstance(v) == TypeOf(v) = "dict" \/ IsMapping(v)

\* the entries of a dict instance
Entries(v) == IF TypeOf(v) = "dict" THEN v[2] ELSE v[2].data

HStoreDictException(message, json_error_message) ==
    <<"exc", "HStoreDictException", message, json_error_message>>

\* HStoreDict.ensure_acceptable_value
ensure_acceptable_value(value) ==
    IF TypeOf(value) = "bool" THEN PyStr(Lower(force_text(value)[2]))
    ELSE IF TypeOf(value) \in {"int", "float", "Decimal"} THEN force_text(value)
    ELSE IF TypeOf(value) = "list" \/ TypeOf(value) = "dict"
         THEN force_text(json_dumps(value))
    ELSE value

\* HStoreDict.__init__ without "elif value is None: value = {}"
HStoreDict_init_NoneRefused(cls, value, field, instance, connection) ==
    LET loaded == IF TypeOf(value) = "str" THEN json_loads(value) ELSE value
    IN  IF IsExc(loaded)
        THEN HStoreDictException("HStoreDict accepts only valid json formatted strings.",
                                 force_text(loaded))
        ELSE IF ~IsDictInstance(loaded)
        THEN HStoreDictException("HStoreDict accepts only dictionary objects, None and json formatted string representations of json objects",
                                 None)
        ELSE Object(cls,
                    [k \in DOMAIN Entries(loaded) |-> ensure_acceptable_value(Entries(loaded)[k])],
                    field, instance, connection)

\* HStoreDict.__init__ for class cls: the object, or the exception raised
HStoreDict_init(cls, value, field, instance, connection) ==
    LET loaded == IF TypeOf(value) = "str" THEN json_loads(value)
                  ELSE IF value = None THEN PyDict(EmptyMap)
                  ELSE value
    IN  IF IsExc(loaded)
        THEN HStoreDictException("HStoreDict accepts only valid json formatted strings.",
                                 force_text(loaded))
        ELSE IF ~IsDictInstance(loaded)
        THEN HStoreDictException("HStoreDict accepts only dictionary objects, None and json formatted string representations of json objects",
                                 None)
        ELSE Object(cls,
                    [k \in DOMAIN Entries(loaded) |-> ensure_acceptable_value(Entries(loaded)[k])],
                    field, instance, connection)

\* dict.__setitem__
dict_setitem(obj, key, value) ==
    <<obj[1], [obj[2] EXCEPT !.data = (key :> value) @@ @]>>

\* HStoreDict.__setitem__
HStoreDict_setitem(obj, key, value) ==
    dict_setitem(obj, key, ensure_acceptable_value(value))

\* HStoreDict.__unicode__
HStoreDict_unicode(obj) ==
    IF DOMAIN obj[2].data # {} THEN force_text(json_dumps(PyDict(obj[2].data)))
    ELSE PyStr(<<>>)

\* HStoreDict.__copy__: self.__class__(self, self.field, self.connection)
HStoreDict_copy(obj) ==
    HStoreDict_init(obj[1], obj, obj[2].field, obj[2].connection, None)

\* HStoreDict.prepare
HStoreDict_prepare(obj, connection) ==
    <<obj[1], [obj[2] EXCEPT !.connection = connection]>>

---------------------------------------------------------------------------
(***************************************************************************)
(* HStoreModeledDictionary.  A schema maps a key to its options, a dict    *)
(* over "type", "blank", "null" and "default"; a type object is            *)
(* <<"type", name>>.                                                       *)
(***************************************************************************)
PyType(name) == <<"type", name>>

HStoreModelException(message) == <<"exc", "HStoreModelException", message>>

\* bool(value) for the values an option holds
Truthy(v) ==
    CASE TypeOf(v) = "NoneType" -> FALSE
      [] TypeOf(v) = "bool" -> v[2]
      [] TypeOf(v) \in {"int", "long", "float"} -> v[2] # 0
      [] TypeOf(v) \in {"str", "list"} -> v[2] # <<>>
      [] TypeOf(v) = "dict" -> DOMAIN v[2] # {}
      [] OTHER -> TRUE

\* dict.get(name, default)
dict_get(f, name, default) == IF name \in DOMAIN f THEN f[name] ELSE default

\* the options validate_schema stores for one key, or the exception it raises
validate_options(key, given) ==
    LET options == IF TypeOf(given) = "dict" THEN given[2] ELSE EmptyMap
        type == dict_get(options, "type", None)
    IN  IF Truthy(type) /\ TypeOf(type) # "type"
        THEN HStoreModelException(<<"type specified for key %s is not a valid type", key>>)
        ELSE PyDict([name \in (DOMAIN options) \cup {"type", "blank", "null", "default"} |->
                 CASE name = "type" -> IF Truthy(type) THEN type ELSE PyType("str")
                   [] name = "blank" -> dict_get(options, "blank", False)
                   [] name = "null" -> dict_get(options, "null", False)
                   [] name = "default" -> dict_get(options, "default", None)
                   [] OTHER -> options[name]])

\* HStoreModeledDictionary.validate_schema: the validated schema (a dict from
\* keys to options), or the exception raised
validate_schema(schema) ==
    IF ~Truthy(schema) \/ TypeOf(schema) # "dict"
    THEN HStoreModelException(<<"No valid schema specified for HStoreModeledDictionary">>)
    ELSE LET validated == [key \in DOMAIN schema[2] |-> validate_options(key, schema[2][key])]
         IN  IF \E key \in DOMAIN validated : IsExc(validated[key])
             THEN validated[CHOOSE key \in DOMAIN validated : IsExc(validated[key])]
             ELSE PyDict([key \in DOMAIN validated |-> validated[key][2]])

\* HStoreModeledDictionary.__init__: value, field, instance and connection are
\* not handed to HStoreDict.__init__
HStoreModeledDictionary_init(value, field, instance, connection, schema) ==
    LET validated == validate_schema(schema)
        base == HStoreDict_init("HStoreModeledDictionary", None, None, None, None)
    IN  IF IsExc(validated) THEN validated
        ELSE <<base[1], [schema |-> validated[2]] @@ base[2]>>

\* HStoreModeledDictionary.ensure_acceptable_key
ensure_acceptable_key(obj, key) ==
    IF key \notin DOMAIN obj[2].schema
    THEN HStoreModelException(<<"%s is not a valid key", key>>)
    ELSE key

\* ensure_acceptable_value with isinstance(value, type) for "type(value) is
\* type": a bool is an instance of int
Modeled_ensure_acceptable_value_Isinstance(obj, key, value) ==
    IF /\ PyType(TypeOf(value)) # obj[2].schema[key]["type"]
       /\ ~(TypeOf(value) = "bool" /\ obj[2].schema[key]["type"] = PyType("int"))
    THEN HStoreModelException(<<"%s is not a valid type for key %s, type %s expected",
                                value, key, obj[2].schema[key]["type"]>>)
    ELSE ensure_acceptable_value(pickle_dumps(value))

\* HStoreModeledDictionary.ensure_acceptable_value
Modeled_ensure_acceptable_value(obj, key, value) ==
    IF PyType(TypeOf(value)) # obj[2].schema[key]["type"]
    THEN HStoreModelException(<<"%s is not a valid type for key %s, type %s expected",
                                value, key, obj[2].schema[key]["type"]>>)
    ELSE ensure_acceptable_value(pickle_dumps(value))

\* __setitem__ that checks the keys the schema declares and stores any other
HStoreModeledDictionary_setitem_AnyKey(obj, key, value) ==
    IF key \notin DOMAIN obj[2].schema
    THEN dict_setitem(obj, key, ensure_acceptable_value(pickle_dumps(value)))
    ELSE LET v == Modeled_ensure_acceptable_value(obj, key, value)
         IN  IF IsExc(v) THEN v ELSE dict_setitem(obj, key, v)

\* HStoreModeledDictionary.__setitem__: the object after it, or the exception
HStoreModeledDictionary_setitem(obj, key, value) ==
    LET k == ensure_acceptable_key(obj, key)
        v == Modeled_ensure_acceptable_value(obj, k, value)
    IN  IF IsExc(k) THEN k
        ELSE IF IsExc(v) THEN v
        ELSE dict_setitem(obj, k, v)

\* _get_default_for_key that forgets the declared default
get_default_for_key_None(obj, key) ==
    IF key \in DOMAIN obj[2].schema THEN None
    ELSE HStoreModelException(<<"%s is not a valid key", key>>)

\* HStoreModeledDictionary._get_default_for_key
get_default_for_key(obj, key) ==
    IF key \in DOMAIN obj[2].schema
    THEN dict_get(obj[2].schema[key], "default", None)
    ELSE HStoreModelException(<<"%s is not a valid key", key>>)

\* HStoreModeledDictionary.__getitem__
HStoreModeledDictionary_getitem(obj, key) ==
    IF key \in DOMAIN obj[2].data THEN pickle_loads(obj[2].data[key])
    ELSE get_default_for_key(obj, key)

\* HStoreModeledDictionary.get: __getitem__ raises no KeyError
HStoreModeledDictionary_get(obj, key, default) ==
    LET r == HStoreModeledDictionary_getitem(obj, key)
    IN  IF IsExc(r) /\ r[2] = "KeyError" THEN get_default_for_key(obj, key) ELSE r

---------------------------------------------------------------------------
(***************************************************************************)
(* HStoreDict.update, for the three classes: self[key] = value is the      *)
(* __setitem__ of the object's class.                                      *)
(***************************************************************************)
\* self[key] = value: the object after it, or the exception raised
SetItem(obj, key, value) ==
    IF obj[1] = "HStoreModeledDictionary"
    THEN HStoreModeledDictionary_setitem(obj, key, value)
    ELSE HStoreDict_setitem(obj, key, value)

Outcome(obj, exc) == [obj |-> obj, exc |-> exc]

RECURSIVE UpdateLoop(_, _, _)
\* the loop of HStoreDict.update over the keys ks, in that order: the object
\* when the loop ends, and the exception that ended it or None
UpdateLoop(obj, f, ks) ==
    IF ks = <<>> THEN Outcome(obj, None)
    ELSE LET r == SetItem(obj, Head(ks), f[Head(ks)])
         IN  IF IsExc(r) THEN Outcome(obj, r) ELSE UpdateLoop(r, f, Tail(ks))

\* HStoreDict.update(other), other's items iterated in the order ks
HStoreDict_update(obj, other, ks) == UpdateLoop(obj, other[2], ks)

\* the orders in which the keys S can be iterated
Orders(S) ==
    {ks \in [1..Cardinality(S) -> S] : \A i, j \in 1..Cardinality(S) : i # j => ks[i] # ks[j]}

---------------------------------------------------------------------------
(***************************************************************************)
(* The state: one mapping object and what the operations on it returned.   *)
(***************************************************************************)
VARIABLES
    obj,        \* the mapping object, None before it is constructed
    op,         \* the last call: <<name, arguments>>
    ret,        \* what the last call returned or raised
    written,    \* history: key -> the value last stored under it by a write
    db,         \* the primary keys of the records that exist
    lookups,    \* history: key -> lookups made for it since its last write
    first,      \* history: key -> what its first read since its last write returned
    nextOid,    \* the object id of the next model instance a lookup creates
    declared    \* history: the schema handed to HStoreModeledDictionary

vars == <<obj, op, ret, written, db, lookups, first, nextOid, declared>>

\* what the operations of HStoreDict leave alone
others == <<db, lookups, first, nextOid, declared>>

data == obj[2].data

Field == <<"Field", "data">>
Instance == <<"Instance", 1>>
Connection(c) == <<"Connection", c>>
Connections == {Connection(c) : c \in 1..MaxConn}

KeyA == <<"a">>
KeyB == <<"b">>
Keys == {KeyA, KeyB}

\* the values written to a HStoreDict
Values ==
    {None, True, False,
     PyInt(-MaxInt), PyInt(0), PyInt(MaxInt), PyLong(MaxInt),
     PyFloat(15), PyFloat(-5), PyDecimal(150, 2),
     PyStr(<<"x">>), PyStr(<<"q", "\"", "\\">>),
     PyList(<<PyInt(1), PyStr(<<"a">>), True>>),
     PyDict(KeyB :> PyList(<<>>))}

\* the values of the dicts of two entries
PairValues == {False, PyLong(MaxInt), PyStr(<<"x">>), PyList(<<PyInt(1), PyStr(<<"a">>), True>>)}

\* the native dicts handed to __init__ and update: of no entry, of one entry
\* with any value, of two entries
Dicts ==
    {PyDict(f) : f \in {EmptyMap} \cup UNION {[{k} -> Values] : k \in Keys}
                                  \cup [Keys -> PairValues]}

\* texts that are JSON objects
ObjectTexts ==
    {PyStr(<<"{", "}">>),
     PyStr(<<"{", "\"", "a", "\"", ":", " ", "1", "}">>),
     PyStr(<<"{", "\"", "a", "\"", ":", " ", "\"", "x", "\"", ",", " ", "\"", "b", "\"", ":", " ", "[", "1", ",", " ", "2", "]", "}">>),
     PyStr(<<"{", "\"", "b", "\"", ":", " ", "n", "u", "l", "l", "}">>),
     PyStr(<<" ", "{", "\"", "a", "\"", ":", "t", "r", "u", "e", ",", "\"", "b", "\"", ":", "-", "1", ".", "5", "}", " ">>),
     PyStr(<<"{", "\"", "a", "\"", ":", " ", "{", "\"", "b", "\"", ":", " ", "\"", "q", "\"", "}", "}">>),
     PyStr(<<"{", "\"", "a", "\"", ":", " ", "1", ",", " ", "\"", "a", "\"", ":", " ", "\"", "x", "\"", "}">>)}

\* texts that are JSON values, but no objects
NonObjectTexts ==
    {PyStr(<<"[", "1", "]">>),
     PyStr(<<"5">>),
     PyStr(<<"\"", "x", "\"">>),
     PyStr(<<"n", "u", "l", "l">>),
     PyStr(<<"t", "r", "u", "e">>),
     PyStr(<<"[", "{", "\"", "a", "\"", ":", " ", "1", "}", "]">>)}

\* texts that are not JSON
BadTexts ==
    {PyStr(<<>>),
     PyStr(<<"{">>),
     PyStr(<<"{", "\"", "a", "\"", "}">>),
     PyStr(<<"{", "a", ":", " ", "1", "}">>),
     PyStr(<<"x">>),
     PyStr(<<"{", "\"", "a", "\"", ":", " ", "1", ",", "}">>),
     PyStr(<<"{", "\"", "a", "\"", ":", " ", "1", "}", " ", "x">>),
     PyStr(<<"{", "'", "a", "'", ":", " ", "1", "}">>)}

\* values that are neither text, None nor a dict
OtherInputs == {PyInt(5), True, PyList(<<PyStr(<<"a">>)>>), <<"object", 1>>}

InitInputs == {None} \cup Dicts \cup ObjectTexts \cup NonObjectTexts \cup BadTexts \cup OtherInputs

NoHistory == [k \in {} |-> 0]

Init ==
    /\ obj = None
    /\ op = <<"none", None>>
    /\ ret = None
    /\ written = EmptyMap
    /\ db = {}
    /\ lookups = NoHistory
    /\ first = EmptyMap
    /\ nextOid = 1
    /\ declared = None

\* the entries __init__ stores for an input it accepts
InputEntries(value) ==
    IF TypeOf(value) = "str" THEN json_loads(value)[2]
    ELSE IF value = None THEN EmptyMap
    ELSE value[2]

\* HStoreDict(value, field, instance, connection)
Construct(value, field, instance, connection) ==
    LET r == HStoreDict_init("HStoreDict", value, field, instance, connection)
    IN  /\ obj = None
        /\ op[1] = "none"
        /\ op' = <<"__init__", <<value, field, instance, connection>>>>
        /\ ret' = r
        /\ obj' = IF IsExc(r) THEN None ELSE r
        /\ written' = IF IsExc(r) THEN EmptyMap ELSE InputEntries(value)
        /\ UNCHANGED others

\* obj[key] = value
SetItemBase(key, value) ==
    /\ TypeOf(obj) = "HStoreDict"
    /\ obj' = HStoreDict_setitem(obj, key, value)
    /\ op' = <<"__setitem__", None>>
    /\ ret' = None
    /\ written' = (key :> value) @@ written
    /\ UNCHANGED others

\* obj.update(other)
UpdateBase(other, ks) ==
    LET r == HStoreDict_update(obj, other, ks)
    IN  /\ TypeOf(obj) = "HStoreDict"
        /\ obj' = r.obj
        /\ op' = <<"update", None>>
        /\ ret' = r.exc
        /\ written' = other[2] @@ written
        /\ UNCHANGED others

\* obj.prepare(connection)
Prepare(connection) ==
    /\ TypeOf(obj) = "HStoreDict"
    /\ obj' = HStoreDict_prepare(obj, connection)
    /\ op' = <<"prepare", None>>
    /\ ret' = None
    /\ UNCHANGED <<written, others>>

\* copy.copy(obj)
Copy ==
    /\ TypeOf(obj) = "HStoreDict"
    /\ op' = <<"__copy__", None>>
    /\ ret' = HStoreDict_copy(obj)
    /\ UNCHANGED <<obj, written, others>>

\* HStoreDict(unicode(obj)): a mapping built from obj's text
FromText ==
    /\ TypeOf(obj) = "HStoreDict"
    /\ op' = <<"from_text", None>>
    /\ ret' = HStoreDict_init("HStoreDict", HStoreDict_unicode(obj), None, None, None)
    /\ UNCHANGED <<obj, written, others>>

Next ==
    \/ \E value \in InitInputs, b \in BOOLEAN, connection \in {None, Connection(1)} :
          Construct(value, IF b THEN Field ELSE None, IF b THEN Instance ELSE None, connection)
    \/ \E key \in Keys, value \in Values : SetItemBase(key, value)
    \/ \E other \in Dicts : \E ks \in Orders(DOMAIN other[2]) : UpdateBase(other, ks)
    \/ \E connection \in Connections : Prepare(connection)
    \/ Copy
    \/ FromText

Spec == Init /\ [][Next]_vars

---------------------------------------------------------------------------
(***************************************************************************)
(* Properties of HStoreDict, under Spec.                                   *)
(***************************************************************************)
\* Value Coercion as specified: booleans to "true"/"false", integers, floats
\* and decimals to their decimal text, lists and mappings to their JSON text,
\* anything else unchanged
coerce_for_storage(value) ==
    CASE TypeOf(value) = "bool" ->
            PyStr(IF value[2] THEN <<"t", "r", "u", "e">> ELSE <<"f", "a", "l", "s", "e">>)
      [] TypeOf(value) \in {"int", "long"} -> PyStr(IntToText(value[2]))
      [] TypeOf(value) = "float" -> PyStr(FloatToText(value[2]))
      [] TypeOf(value) = "Decimal" -> PyStr(DecimalToText(value[2], value[3]))
      [] TypeOf(value) \in {"list", "dict"} -> PyStr(JsonEncode(value))
      [] OTHER -> value

\* the types of the values C1 is about
CoercedTypes == {"bool", "int", "long", "float", "Decimal", "list", "dict", "str"}

\* C1: after construction and any writes, every stored value whose written
\* value was a boolean, integer, float, decimal, list, mapping or text is the
\* text coerce_for_storage gives for the value last written under its key, and
\* no boolean, number, list or mapping is held in the mapping.
C1_StoredValuesAreCoercedText ==
    TypeOf(obj) = "HStoreDict" =>
        /\ DOMAIN data = DOMAIN written
        /\ \A k \in DOMAIN data :
              /\ TypeOf(written[k]) \in CoercedTypes =>
                    /\ TypeOf(data[k]) = "str"
                    /\ data[k] = coerce_for_storage(written[k])
              /\ TypeOf(data[k]) \notin (CoercedTypes \ {"str"})

\* C2: building a mapping from the text of a mapping succeeds and gives the
\* same keys with the same stored values, the empty mapping included.
C2_FromTextOfToText ==
    op[1] = "from_text" =>
        /\ TypeOf(ret) = "HStoreDict"
        /\ ret[2].data = data

\* the input of the last __init__
InitValue == op[2][1]

\* C7: __init__ raises HStoreDictException exactly for text that is not JSON
\* (the exception then carries the decoder's message), for text that is JSON
\* but no object, and for an input that is neither text, None nor a dict; for
\* a dict, None and the text of an object it succeeds, None giving the empty
\* mapping.
C7_InitFailsExactly ==
    op[1] = "__init__" =>
        /\ InitValue \in BadTexts =>
              /\ IsExc(ret) /\ ret[2] = "HStoreDictException"
              /\ ret[4] = force_text(json_loads(InitValue))
        /\ InitValue \in NonObjectTexts \cup OtherInputs =>
              /\ IsExc(ret) /\ ret[2] = "HStoreDictException"
        /\ InitValue \in {None} \cup Dicts \cup ObjectTexts =>
              /\ TypeOf(ret) = "HStoreDict"
              /\ obj = ret
              /\ DOMAIN data = DOMAIN InputEntries(InitValue)
        /\ InitValue = None => data = EmptyMap

\* a text that is JSON but no object was refused, and one that is not JSON too
C7_Witness ==
    /\ op[1] = "__init__"
    /\ InitValue \in NonObjectTexts \cup BadTexts
    /\ IsExc(ret)

\* C10: a copy is a mapping of the same class with the same entries, the
\* same field and the same connection as the original.
C10_CopyKeepsBindings ==
    op[1] = "__copy__" =>
        /\ TypeOf(ret) = TypeOf(obj)
        /\ ret[2].data = data
        /\ ret[2].field = obj[2].field
        /\ ret[2].connection = obj[2].connection

---------------------------------------------------------------------------
(***************************************************************************)
(* HStoreModeledDictionary as a state machine: SpecModeled.                *)
(***************************************************************************)
KeyN == <<"n">>
KeyS == <<"s">>
KeyZ == <<"z">>
ModeledKeys == {KeyN, KeyS, KeyZ}

\* n an int with default 7, s with no options: text, no default
SchemaIntText ==
    PyDict((KeyN :> PyDict(("type" :> PyType("int")) @@ ("default" :> PyInt(7))))
           @@ (KeyS :> PyDict(EmptyMap)))

\* n an int with no default, s a bool that may be blank, with default False
SchemaIntBool ==
    PyDict((KeyN :> PyDict("type" :> PyType("int")))
           @@ (KeyS :> PyDict(("type" :> PyType("bool")) @@ ("blank" :> True)
                              @@ ("default" :> False))))

ValidSchemas == {SchemaIntText, SchemaIntBool}

\* no schema, an empty one, one that is no dict, one whose type is no type
InvalidSchemas ==
    {None, PyDict(EmptyMap), PyList(<<PyStr(<<"n">>)>>),
     PyDict(KeyN :> PyDict("type" :> PyStr(<<"i", "n", "t">>)))}

\* the values written to a HStoreModeledDictionary
ModeledValues ==
    {None, True, PyInt(0), PyInt(MaxInt), PyLong(MaxInt), PyFloat(15),
     PyStr(IntToText(MaxInt)), PyStr(<<"i", "t", "'", "s">>)}

\* the dicts handed to update: of one entry, and of two
ModeledDicts ==
    {PyDict(f) : f \in UNION {[S -> ModeledValues] : S \in {{KeyN}, {KeyS}, {KeyZ}}}
                       \cup [{KeyN, KeyS} -> {PyInt(MaxInt), PyStr(<<"i", "t", "'", "s">>), True}]
                       \cup [{KeyN, KeyZ} -> {PyInt(0), True}]
                       \cup [{KeyS, KeyZ} -> {PyStr(IntToText(MaxInt)), True}]}

\* the initial values handed to the constructor
ModeledInitValues ==
    {None, PyDict(KeyN :> PyInt(MaxInt)), PyDict(KeyS :> True),
     PyDict((KeyN :> PyInt(0)) @@ (KeyS :> PyStr(<<"i", "t", "'", "s">>)))}

\* HStoreModeledDictionary(value, field, instance, connection, schema)
ConstructModeled(value, field, instance, connection, schema) ==
    LET r == HStoreModeledDictionary_init(value, field, instance, connection, schema)
    IN  /\ obj = None
        /\ op[1] = "none"
        /\ op' = <<"__init__", <<value, field, instance, connection>>>>
        /\ ret' = r
        /\ obj' = IF IsExc(r) THEN None ELSE r
        /\ declared' = schema
        /\ UNCHANGED <<written, db, lookups, first, nextOid>>

\* obj[key] = value
SetItemModeled(key, value) ==
    LET r == HStoreModeledDictionary_setitem(obj, key, value)
    IN  /\ TypeOf(obj) = "HStoreModeledDictionary"
        /\ op' = <<"__setitem__", <<key, value>>>>
        /\ ret' = IF IsExc(r) THEN r ELSE None
        /\ obj' = IF IsExc(r) THEN obj ELSE r
        /\ written' = IF IsExc(r) THEN written ELSE (key :> value) @@ written
        /\ UNCHANGED others

\* the keys of ks that update stored before the loop ended
StoredKeys(r, other, ks) ==
    IF r.exc = None THEN {ks[i] : i \in 1..Len(ks)}
    ELSE LET j == CHOOSE i \in 1..Len(ks) :
                    /\ IsExc(SetItem(obj, ks[i], other[2][ks[i]]))
                    /\ \A h \in 1..(i - 1) : ~IsExc(SetItem(obj, ks[h], other[2][ks[h]]))
         IN  {ks[i] : i \in 1..(j - 1)}

\* obj.update(other), other iterated in the order ks
UpdateModeled(other, ks) ==
    LET r == HStoreDict_update(obj, other, ks)
    IN  /\ TypeOf(obj) = "HStoreModeledDictionary"
        /\ op' = <<"update", <<other, ks>>>>
        /\ ret' = r.exc
        /\ obj' = r.obj
        /\ written' = [k \in StoredKeys(r, other, ks) |-> other[2][k]] @@ written
        /\ UNCHANGED others

\* obj[key]
GetItemModeled(key) ==
    /\ TypeOf(obj) = "HStoreModeledDictionary"
    /\ op' = <<"__getitem__", <<key, None>>>>
    /\ ret' = HStoreModeledDictionary_getitem(obj, key)
    /\ UNCHANGED <<obj, written, others>>

\* obj.get(key, default)
GetModeled(key, default) ==
    /\ TypeOf(obj) = "HStoreModeledDictionary"
    /\ op' = <<"get", <<key, default>>>>
    /\ ret' = HStoreModeledDictionary_get(obj, key, default)
    /\ UNCHANGED <<obj, written, others>>

NextModeled ==
    \/ \E value \in ModeledInitValues, b \in BOOLEAN, schema \in ValidSchemas \cup InvalidSchemas :
          ConstructModeled(value, IF b THEN Field ELSE None, IF b THEN Instance ELSE None,
                           None, schema)
    \/ \E key \in ModeledKeys, value \in ModeledValues : SetItemModeled(key, value)
    \/ \E other \in ModeledDicts : \E ks \in Orders(DOMAIN other[2]) : UpdateModeled(other, ks)
    \/ \E key \in ModeledKeys : GetItemModeled(key)
    \/ \E key \in ModeledKeys, default \in {None, PyInt(0)} : GetModeled(key, default)

SpecModeled == Init /\ [][NextModeled]_vars

---------------------------------------------------------------------------
(***************************************************************************)
(* Properties of HStoreModeledDictionary, under SpecModeled.  What the     *)
(* schema declares is read from the schema as it was handed in.            *)
(***************************************************************************)
IsModeled == TypeOf(obj) = "HStoreModeledDictionary"

DeclaredKeys == DOMAIN declared[2]

DeclaredOptions(key) ==
    IF TypeOf(declared[2][key]) = "dict" THEN declared[2][key][2] ELSE EmptyMap

\* the type declared for a key: text when none is
DeclaredType(key) ==
    IF "type" \in DOMAIN DeclaredOptions(key) THEN DeclaredOptions(key)["type"][2] ELSE "str"

\* the default declared for a key: None when none is
DeclaredDefault(key) ==
    IF "default" \in DOMAIN DeclaredOptions(key) THEN DeclaredOptions(key)["default"] ELSE None

\* a value of another type than the one declared for a declared key
Mismatch(key, value) == key \in DeclaredKeys /\ TypeOf(value) # DeclaredType(key)

\* the key of the last __setitem__, __getitem__ or get, and the value written
OpKey == op[2][1]
OpValue == op[2][2]
\* the dict handed to the last update, and the order it was iterated in
OpOther == op[2][1][2]
OpOrder == op[2][2]

\* in every state: a read of a written key returns the value last written
\* under it, with its type; a write of a mismatched value raised
\* HStoreModelException, a write of a matching value to a declared key did not
C3_Reads ==
    IsModeled =>
        /\ \A k \in DOMAIN written :
              /\ HStoreModeledDictionary_getitem(obj, k) = written[k]
              /\ HStoreModeledDictionary_get(obj, k, None) = written[k]
        /\ (op[1] \in {"__getitem__", "get"} /\ OpKey \in DOMAIN written) =>
              ret = written[OpKey]
        /\ (op[1] = "__setitem__" /\ Mismatch(OpKey, OpValue)) =>
              IsExc(ret) /\ ret[2] = "HStoreModelException"
        /\ (op[1] = "__setitem__" /\ OpKey \in DeclaredKeys /\ ~Mismatch(OpKey, OpValue)) =>
              ret = None /\ written[OpKey] = OpValue
        /\ (op[1] = "update" /\ \E k \in DOMAIN OpOther : Mismatch(k, OpOther[k])) =>
              IsExc(ret) /\ ret[2] = "HStoreModelException"

\* what a read of key returns in the state before and in the state after
ReadUnchanged(key) ==
    HStoreModeledDictionary_getitem(obj', key) = HStoreModeledDictionary_getitem(obj, key)

\* in every step: the write of a mismatched value leaves what a read of its
\* key returns as it was
C3_FailedWrite ==
    /\ (op'[1] = "__setitem__" /\ Mismatch(OpKey', OpValue')) => ReadUnchanged(OpKey')
    /\ op'[1] = "update" =>
          \A k \in DOMAIN OpOther' : Mismatch(k, OpOther'[k]) => ReadUnchanged(k)

\* C3: a read (obj[key] or get) returns the value last written successfully
\* under the key, with its original type; a write whose value is not exactly
\* of the declared type raises HStoreModelException and does not change what a
\* read of the key returns.
C3_TypedRoundTrip == []C3_Reads /\ [][C3_FailedWrite]_vars

\* the int MaxInt was written to the int key n and read back as an int, and a
\* text was refused there
C3_Witness ==
    /\ IsModeled
    /\ KeyN \in DOMAIN written /\ written[KeyN] = PyInt(MaxInt)
    /\ op[1] \in {"__getitem__", "get"} /\ OpKey = KeyN
    /\ ret = PyInt(MaxInt)

\* the last write had a key the schema does not declare
WroteUndeclared ==
    \/ op[1] = "__setitem__" /\ OpKey \notin DeclaredKeys
    \/ op[1] = "update" /\ \E k \in DOMAIN OpOther : k \notin DeclaredKeys

StoredKeysDeclared == IsModeled => DOMAIN data \subseteq DeclaredKeys

\* C4 as claimed: every write, item assignment or update, with an undeclared
\* key raises HStoreModelException and leaves the mapping unchanged, so the
\* stored keys are always declared keys.
C4_UndeclaredWriteChangesNothing ==
    /\ []StoredKeysDeclared
    /\ [][WroteUndeclared' => (IsExc(ret') /\ ret'[2] = "HStoreModelException" /\ obj' = obj)]_vars

\* the keys update iterated before the first key that is undeclared or holds a
\* mismatched value
AcceptedPrefix(other, ks) ==
    {ks[i] : i \in {j \in 1..Len(ks) :
                      \A h \in 1..j : ks[h] \in DeclaredKeys /\ ~Mismatch(ks[h], other[ks[h]])}}

C4_Step ==
    /\ (op'[1] = "__setitem__" /\ OpKey' \notin DeclaredKeys) =>
          /\ IsExc(ret') /\ ret'[2] = "HStoreModelException"
          /\ obj' = obj
    /\ (op'[1] = "update" /\ \E k \in DOMAIN OpOther' : k \notin DeclaredKeys) =>
          /\ IsExc(ret') /\ ret'[2] = "HStoreModelException"
          /\ obj'[2].schema = obj[2].schema
          /\ DOMAIN obj'[2].data = DOMAIN data \cup AcceptedPrefix(OpOther', OpOrder')
          /\ \A k \in DOMAIN data \ AcceptedPrefix(OpOther', OpOrder') :
                obj'[2].data[k] = data[k]
          /\ \A k \in AcceptedPrefix(OpOther', OpOrder') :
                HStoreModeledDictionary_getitem(obj', k) = OpOther'[k]
          /\ OpOrder'[1] \notin DeclaredKeys => obj' = obj

\* C4 as amended: an item assignment with an undeclared key raises
\* HStoreModelException and leaves the mapping unchanged; an update with an
\* undeclared key raises HStoreModelException and stores nothing under it, but
\* keeps the entries it stored for the keys it iterated before the first key
\* it refused; the stored keys are always declared keys.
C4_UndeclaredKeyNeverStored == []StoredKeysDeclared /\ [][C4_Step]_vars

\* an update with an undeclared key raised after it had stored a declared one
C4_Witness ==
    /\ IsModeled
    /\ op[1] = "update" /\ IsExc(ret)
    /\ \E k \in DOMAIN OpOther : k \notin DeclaredKeys
    /\ OpOrder[1] \in DOMAIN data
    /\ HStoreModeledDictionary_getitem(obj, OpOrder[1]) = OpOther[OpOrder[1]]
    /\ AcceptedPrefix(OpOther, OpOrder) # {}

C8_InitKeepsValue ==
    (/\ op[1] = "__init__"
     /\ declared \in ValidSchemas
     /\ TypeOf(op[2][1]) = "dict"
     /\ \A k \in DOMAIN op[2][1][2] : k \in DeclaredKeys /\ ~Mismatch(k, op[2][1][2][k]))
    =>
        /\ TypeOf(ret) = "HStoreModeledDictionary"
        /\ \A k \in DOMAIN op[2][1][2] :
              /\ HStoreModeledDictionary_getitem(ret, k) = op[2][1][2][k]
              /\ HStoreModeledDictionary_get(ret, k, None) = op[2][1][2][k]
        /\ ret[2].field = op[2][2]
        /\ ret[2].instance = op[2][3]

---------------------------------------------------------------------------
(***************************************************************************)
(* HStoreReferenceDictionary.  utils.acquire_reference is the lookup        *)
(* collaborator: resolve_identifier(id) -> record | fails(NotFound).       *)
(***************************************************************************)
\* the identifier text of the record with primary key pk
Identifier(pk) == PyStr(<<"M", ":">> \o IntToText(pk))

ReferenceResolutionError(identifier) == <<"exc", "ReferenceResolutionError", identifier>>

\* utils.acquire_reference(identifier): a new instance (object id oid) of the
\* record the identifier names, when it is among the records that exist
acquire_reference(identifier, records, oid) ==
    LET pk == TextToInt(SubSeq(identifier[2], 3, Len(identifier[2])))
    IN  IF pk \in records THEN <<"Model", pk, oid>>
        ELSE ReferenceResolutionError(identifier)

Returned(o, r) == [obj |-> o, ret |-> r]

\* __getitem__ without "self.__setitem__(args[0], reference)"
HStoreReferenceDictionary_getitem_NoMemo(o, key, records, oid) ==
    IF key \notin DOMAIN o[2].data THEN Returned(o, Exc("KeyError", key))
    ELSE LET value == o[2].data[key]
         IN  IF TypeOf(value) = "str"
             THEN Returned(o, acquire_reference(value, records, oid))
             ELSE Returned(o, value)

\* HStoreReferenceDictionary.__getitem__: the object after the call, and what
\* the call returned or raised
HStoreReferenceDictionary_getitem(o, key, records, oid) ==
    IF key \notin DOMAIN o[2].data THEN Returned(o, Exc("KeyError", key))
    ELSE LET value == o[2].data[key]
             reference == acquire_reference(value, records, oid)
         IN  IF TypeOf(value) = "str"
             THEN IF IsExc(reference) THEN Returned(o, reference)
                  ELSE Returned(HStoreDict_setitem(o, key, reference), reference)
             ELSE Returned(o, value)

\* get with "except Exception" for "except KeyError"
HStoreReferenceDictionary_get_Swallows(o, key, default, records, oid) ==
    LET r == HStoreReferenceDictionary_getitem(o, key, records, oid)
    IN  IF IsExc(r.ret) THEN Returned(r.obj, default) ELSE r

\* HStoreReferenceDictionary.get
HStoreReferenceDictionary_get(o, key, default, records, oid) ==
    LET r == HStoreReferenceDictionary_getitem(o, key, records, oid)
    IN  IF IsExc(r.ret) /\ r.ret[2] = "KeyError" THEN Returned(r.obj, default) ELSE r

---------------------------------------------------------------------------
(***************************************************************************)
(* HStoreReferenceDictionary as a state machine: SpecReference.            *)
(***************************************************************************)
Pks == 1..MaxPk
Identifiers == {Identifier(pk) : pk \in Pks}

\* model instances the caller holds already
Instances == {<<"Model", pk, 0>> : pk \in Pks}

\* the dicts of identifiers handed to the constructor
ReferenceDicts ==
    {PyDict(f) : f \in {EmptyMap} \cup [{KeyA} -> Identifiers] \cup [Keys -> Identifiers]}

IsReference == TypeOf(obj) = "HStoreReferenceDictionary"

NoLookups == [made |-> 0, found |-> 0]

\* HStoreReferenceDictionary(value, field, instance), as HStoreReferenceDescriptor
\* builds it
ConstructReference(value) ==
    LET r == HStoreDict_init("HStoreReferenceDictionary", value, Field, Instance, None)
    IN  /\ obj = None
        /\ op[1] = "none"
        /\ op' = <<"__init__", <<value, Field, Instance, None>>>>
        /\ ret' = r
        /\ obj' = IF IsExc(r) THEN None ELSE r
        /\ lookups' = [k \in DOMAIN InputEntries(value) |-> NoLookups]
        /\ UNCHANGED <<written, db, first, nextOid, declared>>

\* obj[key] = value
SetItemReference(key, value) ==
    /\ IsReference
    /\ obj' = HStoreDict_setitem(obj, key, value)
    /\ op' = <<"__setitem__", <<key, value>>>>
    /\ ret' = None
    /\ lookups' = (key :> NoLookups) @@ lookups
    /\ first' = [k \in DOMAIN first \ {key} |-> first[k]]
    /\ UNCHANGED <<written, db, nextOid, declared>>

\* the read of key calls the lookup collaborator
LooksUp(key) == key \in DOMAIN data /\ TypeOf(data[key]) = "str"

\* the history after a read of key that returned or raised r
AfterRead(key, r) ==
    /\ lookups' = IF LooksUp(key)
                  THEN [lookups EXCEPT ![key] =
                           [made |-> @.made + 1,
                            found |-> @.found + (IF IsExc(r.ret) THEN 0 ELSE 1)]]
                  ELSE lookups
    /\ nextOid' = IF LooksUp(key) /\ ~IsExc(r.ret) THEN nextOid + 1 ELSE nextOid
    /\ first' = IF key \in DOMAIN data /\ key \notin DOMAIN first /\ ~IsExc(r.ret)
                THEN (key :> r.ret) @@ first
                ELSE first

\* the bounds of the counters
MayRead(key) ==
    /\ IsReference
    /\ LooksUp(key) => lookups[key].made < MaxLookups /\ nextOid <= MaxObjects

\* obj[key]
GetItemReference(key) ==
    LET r == HStoreReferenceDictionary_getitem(obj, key, db, nextOid)
    IN  /\ MayRead(key)
        /\ op' = <<"__getitem__", <<key, None>>>>
        /\ ret' = r.ret
        /\ obj' = r.obj
        /\ AfterRead(key, r)
        /\ UNCHANGED <<written, db, declared>>

\* obj.get(key, default)
GetReference(key, default) ==
    LET r == HStoreReferenceDictionary_get(obj, key, default, db, nextOid)
    IN  /\ MayRead(key)
        /\ op' = <<"get", <<key, default>>>>
        /\ ret' = r.ret
        /\ obj' = r.obj
        /\ AfterRead(key, r)
        /\ UNCHANGED <<written, db, declared>>

\* a record is saved
SaveRecord(pk) ==
    /\ IsReference
    /\ pk \notin db
    /\ db' = db \cup {pk}
    /\ UNCHANGED <<obj, op, ret, written, lookups, first, nextOid, declared>>

\* a record is deleted
DeleteRecord(pk) ==
    /\ IsReference
    /\ pk \in db
    /\ db' = db \ {pk}
    /\ UNCHANGED <<obj, op, ret, written, lookups, first, nextOid, declared>>

NextReference ==
    \/ \E value \in ReferenceDicts : ConstructReference(value)
    \/ \E key \in Keys, value \in Identifiers \cup Instances : SetItemReference(key, value)
    \/ \E key \in Keys : GetItemReference(key)
    \/ \E key \in Keys, default \in {None, PyStr(<<"d">>)} : GetReference(key, default)
    \/ \E pk \in Pks : SaveRecord(pk)
    \/ \E pk \in Pks : DeleteRecord(pk)

SpecReference == Init /\ [][NextReference]_vars

---------------------------------------------------------------------------
(***************************************************************************)
(* Properties of HStoreReferenceDictionary, under SpecReference.           *)
(***************************************************************************)
\* this step is a read of key: obj[key] or obj.get(key, default)
ReadStep(key) == op'[1] \in {"__getitem__", "get"} /\ op'[2][1] = key /\ db' = db

\* the last call was a read of key
WasRead(key) == op[1] \in {"__getitem__", "get"} /\ OpKey = key

\* in every state: at most one lookup per key found a record since the key
\* was written, the entry then holds that record, and a read that returned
\* gave what the first read since the write gave
C6_Resolved ==
    IsReference =>
        \A k \in DOMAIN data :
            /\ lookups[k].found <= 1
            /\ lookups[k].found = 1 =>
                  /\ TypeOf(data[k]) = "Model"
                  /\ k \in DOMAIN first /\ data[k] = first[k]
            /\ (WasRead(k) /\ ~IsExc(ret)) => (k \in DOMAIN first /\ ret = first[k])

\* in every step: a read of a key that was read since its last write returns
\* the same object, makes no lookup and leaves the mapping as it is
C6_Reread ==
    \A k \in Keys :
        (IsReference /\ ReadStep(k) /\ k \in DOMAIN first) =>
            /\ ret' = first[k]
            /\ lookups' = lookups
            /\ obj' = obj

\* C6: reads of a key with no write in between all return the same record
\* object, at most one lookup for the key finds it, and after the first such
\* read the entry holds the record, not the identifier text.
C6_Memoized == []C6_Resolved /\ [][C6_Reread]_vars

\* a was resolved (object 1), then b (object 2), then a was read again and
\* gave object 1
C6_Witness ==
    /\ IsReference
    /\ WasRead(KeyA)
    /\ TypeOf(ret) = "Model" /\ ret[3] = 1
    /\ nextOid = 3
    /\ lookups[KeyA] = [made |-> 1, found |-> 1]

\* the identifier text under key names a record that does not exist
Dangling(key) ==
    /\ key \in DOMAIN data
    /\ \E pk \in Pks : data[key] = Identifier(pk) /\ pk \notin db

\* the identifier text under key names the record pk, which exists
Resolvable(key, pk) ==
    /\ key \in DOMAIN data
    /\ data[key] = Identifier(pk) /\ pk \in db

\* in every step: a read of a key whose identifier names no record raises
\* ReferenceResolutionError, also through get, after one lookup, and leaves
\* the mapping as it is, the entry still text; a read of a key whose
\* identifier names a record makes one lookup and returns the record
C9_Read ==
    \A k \in Keys :
        /\ (IsReference /\ ReadStep(k) /\ Dangling(k)) =>
              /\ IsExc(ret') /\ ret'[2] = "ReferenceResolutionError"
              /\ obj' = obj
              /\ TypeOf(obj'[2].data[k]) = "str"
              /\ lookups'[k].made = lookups[k].made + 1
        /\ \A pk \in Pks :
              (IsReference /\ ReadStep(k) /\ Resolvable(k, pk)) =>
                  /\ TypeOf(ret') = "Model" /\ ret'[2] = pk
                  /\ lookups'[k].made = lookups[k].made + 1

\* C9: a read whose lookup finds no record raises ReferenceResolutionError
\* (get does not return its default), the mapping is left unchanged with the
\* entry still identifier text, and a later read of the key looks up again
\* and returns the record if it exists then.
C9_FailurePropagates == [][C9_Read]_vars

\* a read of a failed, and after the record was saved a read of a returned it
C9_Witness ==
    /\ IsReference
    /\ WasRead(KeyA)
    /\ TypeOf(ret) = "Model"
    /\ lookups[KeyA] = [made |-> 2, found |-> 1]

=============================================================================
